---- MODULE Spec2Model ----
(***************************************************************************)
(* Model of the scan-and-verify pipeline of mail_scanner.py:               *)
(* MailScanner.__init__, scan_mail, _scan_with_gemini,                     *)
(* _parse_gemini_response, _scan_with_tesseract, _parse_address_text and   *)
(* verify_address.  The hosted services (vision model, OCR engine, address *)
(* verification) are the environment: every step that calls one of them    *)
(* draws the service's answer from a bounded catalogue.                    *)
(***************************************************************************)
EXTENDS Integers, Sequences, FiniteSets, TLC

VARIABLES use_gemini, use_smarty, smarty_client, TESSERACT_AVAILABLE,
          PIL_AVAILABLE, genai_api_key,
          pc, image_source, result, raised, reply, ocr_text,
          vision_failed, calls, verify_call, prev_call, up_pc, files, idx,
          scanned_count, errors, created_results, visited, image_bytes,
          pdf_pc, addresses, pdf_idx, page_num, placed, pages,
          scans_this_month,
          si_pc, attempt, auth_calls, si_result, si_seen,
          rq_pc, session, rq_in, rq_user, handler_ran, rq_response

config == <<use_gemini, use_smarty, smarty_client, TESSERACT_AVAILABLE,
            PIL_AVAILABLE, genai_api_key>>

\* the state of one scan_mail / verify_address invocation
scan == <<pc, image_source, result, raised, reply, ocr_text, vision_failed,
          calls, verify_call>>

\* the state of one upload_files request
batch == <<up_pc, files, idx, scanned_count, errors, created_results,
           visited, image_bytes>>

\* the state of one create_address_pdf call: the number of addresses, the
\* loop index, the page counter, the slot each label was drawn at and the
\* pages given out
pdf == <<pdf_pc, addresses, pdf_idx, page_num, placed, pages>>

\* the state of one sign_in call: the loop index, the calls made to the
\* authentication service, what each did, and the pair returned
signin == <<si_pc, attempt, auth_calls, si_result, si_seen>>

\* the session cookie and one request to a route wrapped by require_auth:
\* what the authentication service did, the user get_current_user
\* returned, whether the route's function ran, and the response
authreq == <<rq_pc, session, rq_in, rq_user, handler_ran, rq_response>>

\* the handlers of the web application
web == <<batch, pdf, scans_this_month, signin, authreq>>

vars == <<config, scan, prev_call, web>>

(***************************************************************************)
(* Bounds of the model.                                                    *)
(***************************************************************************)
\* longest candidate list the verification service answers with
MaxCandidates == 2

(***************************************************************************)
(* Python values.  A value carries its type tag and its text: None, a str, *)
(* a non-string JSON scalar (number) and a bool.                           *)
(***************************************************************************)
Null == [t |-> "null", v |-> ""]

Str(s) == [t |-> "str", v |-> s]

Num(s) == [t |-> "num", v |-> s]

True == [t |-> "bool", v |-> "true"]

False == [t |-> "bool", v |-> "false"]

\* a key that a JSON object does not carry
Absent == [t |-> "absent", v |-> ""]

\* Python truth value, as `not x`, `x or y` and filter(None, ...) use it
Truthy(x) ==
  CASE x.t = "null" -> FALSE
    [] x.t = "absent" -> FALSE
    [] x.t = "str" -> x.v # ""
    [] x.t = "num" -> x.v # "0"
    [] x.t = "bool" -> x.v = "true"

\* str(x) as an f-string placeholder renders it
PyFormat(x) == IF x.t = "null" THEN "None" ELSE x.v

\* dict.get(key): None when the key is missing
DictGet(d, k) == IF k \in DOMAIN d /\ d[k] # Absent THEN d[k] ELSE Null

\* mutation of DictUpdate: the dict is replaced by other
DictUpdateReplace(d, other) == other

\* dict.update(other)
DictUpdate(d, other) == other @@ d

RECURSIVE StrJoin(_, _)
\* sep.join(parts) for a sequence of str values
StrJoin(parts, sep) ==
  IF parts = <<>> THEN ""
  ELSE IF Len(parts) = 1 THEN parts[1].v
  ELSE parts[1].v \o sep \o StrJoin(Tail(parts), sep)

\* mutation of FullAddress: None members are not filtered out
FullAddressUnfiltered(rec) ==
  LET address_parts == <<DictGet(rec, "street"), DictGet(rec, "city"),
                         DictGet(rec, "state"), DictGet(rec, "zip")>>
      texts == [i \in 1..4 |-> Str(PyFormat(address_parts[i]))]
  IN IF \E i \in 1..4 : address_parts[i].t \notin {"str", "null"}
     THEN [exc |-> "TypeError", val |-> Null]
     ELSE [exc |-> "none", val |-> Str(StrJoin(texts, ", "))]

\* ', '.join(filter(None, address_parts)) or None ; str.join raises
\* TypeError when a kept item is not a str
FullAddress(rec) ==
  LET address_parts == <<DictGet(rec, "street"), DictGet(rec, "city"),
                         DictGet(rec, "state"), DictGet(rec, "zip")>>
      kept == SelectSeq(address_parts, Truthy)
      joined == StrJoin(kept, ", ")
  IN IF \E i \in 1..Len(kept) : kept[i].t # "str"
     THEN [exc |-> "TypeError", val |-> Null]
     ELSE [exc |-> "none",
           val |-> IF joined # "" THEN Str(joined) ELSE Null]

(***************************************************************************)
(* The vision model's reply.  The reply text is a sequence of tokens: a    *)
(* run of whitespace, a ``` fence marker, the language word "json" behind  *)
(* an opening fence, free text that is no JSON, or one JSON document.      *)
(***************************************************************************)
FieldKeys == {"sender_name", "street", "city", "state", "zip", "category"}

NoObject == [k \in FieldKeys |-> Absent]

\* JSON documents: an object with its members, or a document of another type
JsonObject(members) == [kind |-> "object", obj |-> members]

JsonArray == [kind |-> "array", obj |-> NoObject]

JsonNull == [kind |-> "null", obj |-> NoObject]

JsonString == [kind |-> "string", obj |-> NoObject]

NoJson == [kind |-> "none", obj |-> NoObject]

WsTok == [tok |-> "ws", val |-> NoJson]

FenceTok == [tok |-> "fence", val |-> NoJson]

LangTok == [tok |-> "lang", val |-> NoJson]

TextTok == [tok |-> "text", val |-> NoJson]

JsonTok(doc) == [tok |-> "json", val |-> doc]

RECURSIVE LStrip(_)
\* leading whitespace removed
LStrip(s) ==
  IF s # <<>> /\ Head(s) = WsTok THEN LStrip(Tail(s)) ELSE s

RECURSIVE RStrip(_)
\* trailing whitespace removed
RStrip(s) ==
  IF s # <<>> /\ s[Len(s)] = WsTok THEN RStrip(SubSeq(s, 1, Len(s) - 1))
  ELSE s

\* str.strip()
Strip(s) == RStrip(LStrip(s))

\* re.sub(r'^```json?\s*', '', text)
SubOpenFence(s) ==
  IF Len(s) >= 2 /\ s[1] = FenceTok /\ s[2] = LangTok
  THEN LStrip(SubSeq(s, 3, Len(s)))
  ELSE s

\* re.sub(r'\s*```$', '', text)
SubCloseFence(s) ==
  IF s # <<>> /\ s[Len(s)] = FenceTok
  THEN RStrip(SubSeq(s, 1, Len(s) - 1))
  ELSE s

\* the text handed to json.loads: stripped, fences removed when the text
\* starts with ```
NormalizeReply(response_text) ==
  LET stripped == Strip(response_text)
  IN IF stripped # <<>> /\ stripped[1] = FenceTok
     THEN SubCloseFence(SubOpenFence(stripped))
     ELSE stripped

\* json.loads: one JSON document, whitespace around it allowed; anything
\* else is a JSONDecodeError
JsonLoads(s) ==
  LET body == Strip(s)
  IN IF Len(body) = 1 /\ body[1].tok = "json"
     THEN [exc |-> "none", data |-> body[1].val]
     ELSE [exc |-> "JSONDecodeError", data |-> NoJson]

AllNullFields == [k \in FieldKeys |-> Null]

\* mutation of ParseGeminiResponse: JSONDecodeError is not caught
ParseGeminiResponseRaising(response_text) ==
  LET loaded == JsonLoads(NormalizeReply(response_text))
  IN IF loaded.exc = "JSONDecodeError"
     THEN [exc |-> "JSONDecodeError", rec |-> AllNullFields]
     ELSE IF loaded.data.kind # "object"
     THEN [exc |-> "AttributeError", rec |-> AllNullFields]
     ELSE [exc |-> "none",
           rec |-> [k \in FieldKeys |-> DictGet(loaded.data.obj, k)]]

\* MailScanner._parse_gemini_response: the six fields of the decoded
\* object; all None on JSONDecodeError; data.get on a document that is no
\* object raises AttributeError, which this method does not catch
ParseGeminiResponse(response_text) ==
  LET loaded == JsonLoads(NormalizeReply(response_text))
  IN IF loaded.exc = "JSONDecodeError"
     THEN [exc |-> "none", rec |-> AllNullFields]
     ELSE IF loaded.data.kind # "object"
     THEN [exc |-> "AttributeError", rec |-> AllNullFields]
     ELSE [exc |-> "none",
           rec |-> [k \in FieldKeys |-> DictGet(loaded.data.obj, k)]]

(***************************************************************************)
(* The local OCR text.  The text is a sequence of one-character strings;   *)
(* the two regular expressions of _parse_address_text are matched on the   *)
(* characters of a line.                                                   *)
(***************************************************************************)
Digit == {"0", "1", "2", "3", "4", "5", "6", "7", "8", "9"}

Upper ==
  {"A", "B", "C", "D", "E", "F", "G", "H", "I", "J", "K", "L", "M", "N",
   "O", "P", "Q", "R", "S", "T", "U", "V", "W", "X", "Y", "Z"}

Lower ==
  {"a", "b", "c", "d", "e", "f", "g", "h", "i", "j", "k", "l", "m", "n",
   "o", "p", "q", "r", "s", "t", "u", "v", "w", "x", "y", "z"}

\* \s of the re module, also what str.strip() removes
Space == {" ", "\t", "\n", "\r"}

\* \w of the re module
IsWord(c) == c \in Digit \cup Upper \cup Lower \cup {"_"}

\* the characters of a str
Chars(str) == [i \in 1..Len(str) |-> SubSeq(str, i, i)]

RECURSIVE CharsToStr(_)
\* the str made of a sequence of characters
CharsToStr(cs) ==
  IF cs = <<>> THEN "" ELSE Head(cs) \o CharsToStr(Tail(cs))

RECURSIVE StripLeft(_)
StripLeft(cs) ==
  IF cs # <<>> /\ Head(cs) \in Space THEN StripLeft(Tail(cs)) ELSE cs

RECURSIVE StripRight(_)
StripRight(cs) ==
  IF cs # <<>> /\ cs[Len(cs)] \in Space
  THEN StripRight(SubSeq(cs, 1, Len(cs) - 1))
  ELSE cs

\* str.strip() on a character sequence
StripChars(cs) == StripRight(StripLeft(cs))

RECURSIVE SplitLines(_, _)
\* text.split('\n'), cur being the line collected so far
SplitLines(text, cur) ==
  IF text = <<>> THEN <<cur>>
  ELSE IF Head(text) = "\n" THEN <<cur>> \o SplitLines(Tail(text), <<>>)
  ELSE SplitLines(Tail(text), Append(cur, Head(text)))

\* [line.strip() for line in text.split('\n') if line.strip()]
TextLines(text) ==
  LET raw == SplitLines(text, <<>>)
      stripped == [i \in 1..Len(raw) |-> StripChars(raw[i])]
  IN SelectSeq(stripped, LAMBDA l : l # <<>>)

\* \b in front of position i (between the characters i-1 and i)
Boundary(line, i) ==
  LET before == i - 1 >= 1 /\ i - 1 <= Len(line) /\ IsWord(line[i - 1])
      after == i >= 1 /\ i <= Len(line) /\ IsWord(line[i])
  IN before # after

AllDigits(line, from, to) ==
  to <= Len(line) /\ \A k \in from..to : line[k] \in Digit

\* \b\d{5}(?:-\d{4})?\b anchored at position i: the position of the last
\* matched character, 0 when the pattern does not match there
ZipMatchAt(line, i) ==
  LET five == AllDigits(line, i, i + 4)
      plus4 == /\ five
               /\ i + 9 <= Len(line)
               /\ line[i + 5] = "-"
               /\ AllDigits(line, i + 6, i + 9)
               /\ Boundary(line, i + 10)
  IN IF ~(Boundary(line, i) /\ five) THEN 0
     ELSE IF plus4 THEN i + 9
     ELSE IF Boundary(line, i + 5) THEN i + 4
     ELSE 0

\* re.search(zip_pattern, line): the leftmost match, as its text
ZipSearch(line) ==
  LET starts == {i \in 1..Len(line) : ZipMatchAt(line, i) > 0}
  IN IF starts = {} THEN [found |-> FALSE, text |-> <<>>]
     ELSE LET i == CHOOSE m \in starts : \A n \in starts : m <= n
          IN [found |-> TRUE, text |-> SubSeq(line, i, ZipMatchAt(line, i))]

RECURSIVE SkipSpace(_, _)
\* the first position from i on that holds no whitespace
SkipSpace(line, i) ==
  IF i <= Len(line) /\ line[i] \in Space THEN SkipSpace(line, i + 1) ELSE i

\* ([^,]+),\s*([A-Z]{2})\s*\d{5} anchored at position i: group 1 runs to
\* the next comma, then the two-letter code and five digits must follow
CityStateMatchAt(line, i) ==
  LET commas == {k \in (i + 1)..Len(line) : line[k] = ","}
      j == CHOOSE m \in commas : \A n \in commas : m <= n
      k1 == SkipSpace(line, j + 1)
      k2 == SkipSpace(line, k1 + 2)
  IN /\ line[i] # ","
     /\ commas # {}
     /\ k1 + 1 <= Len(line)
     /\ line[k1] \in Upper
     /\ line[k1 + 1] \in Upper
     /\ AllDigits(line, k2, k2 + 4)

\* re.search(city_state_pattern, line): groups 1 and 2 of the leftmost match
CityStateSearch(line) ==
  LET starts == {i \in 1..Len(line) : CityStateMatchAt(line, i)}
  IN IF starts = {} THEN [found |-> FALSE, city |-> <<>>, state |-> <<>>]
     ELSE LET i == CHOOSE m \in starts : \A n \in starts : m <= n
              commas == {k \in (i + 1)..Len(line) : line[k] = ","}
              j == CHOOSE m \in commas : \A n \in commas : m <= n
              k1 == SkipSpace(line, j + 1)
          IN [found |-> TRUE, city |-> SubSeq(line, i, j - 1),
              state |-> SubSeq(line, k1, k1 + 1)]

\* mutation of ZipCityState: the last line with a ZIP code is taken
ZipCityStateLast(lines) ==
  LET hits == {n \in 1..Len(lines) : ZipSearch(lines[n]).found}
  IN IF hits = {} THEN [zip |-> Null, city |-> Null, state |-> Null]
     ELSE LET n == CHOOSE m \in hits : \A o \in hits : m >= o
              cs_match == CityStateSearch(lines[n])
          IN [zip |-> Str(CharsToStr(ZipSearch(lines[n]).text)),
              city |-> IF cs_match.found
                       THEN Str(CharsToStr(StripChars(cs_match.city)))
                       ELSE Null,
              state |-> IF cs_match.found
                        THEN Str(CharsToStr(StripChars(cs_match.state)))
                        ELSE Null]

\* the zip / city / state loop: the first line with a ZIP match sets zip,
\* and city and state when the same line matches the city pattern; break
ZipCityState(lines) ==
  LET hits == {n \in 1..Len(lines) : ZipSearch(lines[n]).found}
  IN IF hits = {} THEN [zip |-> Null, city |-> Null, state |-> Null]
     ELSE LET n == CHOOSE m \in hits : \A o \in hits : m <= o
              cs_match == CityStateSearch(lines[n])
          IN [zip |-> Str(CharsToStr(ZipSearch(lines[n]).text)),
              city |-> IF cs_match.found
                       THEN Str(CharsToStr(StripChars(cs_match.city)))
                       ELSE Null,
              state |-> IF cs_match.found
                        THEN Str(CharsToStr(StripChars(cs_match.state)))
                        ELSE Null]

\* MailScanner._parse_address_text
ParseAddressText(text) ==
  LET lines == TextLines(text)
      zcs == ZipCityState(lines)
      fields == [sender_name |-> IF Len(lines) > 0
                                 THEN Str(CharsToStr(lines[1])) ELSE Null,
                 street |-> IF Len(lines) > 1
                            THEN Str(CharsToStr(lines[2])) ELSE Null,
                 city |-> zcs.city,
                 state |-> zcs.state,
                 zip |-> zcs.zip,
                 category |-> Null]
  IN [full_address |-> FullAddress(fields).val] @@ fields

TextJaneDoe ==
  <<"J", "a", "n", "e", " ", "D", "o", "e", "\n", "1", "2", "3", " ", "M",
    "a", "i", "n", " ", "S", "t", "\n", "S", "p", "r", "i", "n", "g", "f",
    "i", "e", "l", "d", ",", " ", "I", "L", " ", "6", "2", "7", "0", "4">>

TextEmpty ==
  <<>>

TextBlank ==
  <<"\n", " ", "\n">>

TextOneLine ==
  <<"J", "a", "n", "e", " ", "D", "o", "e">>

TextTwoZipLines ==
  <<"A", "c", "m", "e", "\n", " ", "9", " ", "E", "l", "m", " ", "R", "d",
    " ", "\n", "B", "o", "s", "t", "o", "n", " ", "M", "A", " ", "0", "2",
    "1", "3", "4", "-", "1", "2", "3", "4", "\n", "A", "u", "s", "t", "i",
    "n", ",", " ", "T", "X", " ", "7", "3", "3", "0", "1">>

TextZipInStreet ==
  <<"B", "o", "b", "\n", "\n", "1", "2", "3", "4", "5", " ", "O", "a", "k",
    " ", "A", "v", "e", "\n", "R", "e", "n", "o", ",", " ", "N", "V", " ",
    "8", "9", "5", "0", "1">>

TextLongNumber ==
  <<"P", "O", " ", "1", "2", "3", "4", "5", "6", "\n", "X", ",", " ", "C",
    "A", " ", "9", "0", "2", "1", "0">>

TextSixDigits ==
  <<"A", ",", " ", "B", ",", " ", "N", "Y", " ", "1", "0", "0", "0", "1",
    "1">>

\* what pytesseract.image_to_string may read off an image
OcrTexts ==
  {TextJaneDoe,
   TextEmpty,
   TextBlank,
   TextOneLine,
   TextTwoZipLines,
   TextZipInStreet,
   TextLongNumber,
   TextSixDigits}

(***************************************************************************)
(* Address verification.                                                   *)
(***************************************************************************)
\* a verification outcome, the dict verify_address returns
Outcome(verified, status, street, city, state, zip, full) ==
  [verified |-> verified,
   verification_status |-> status,
   verified_street |-> street,
   verified_city |-> city,
   verified_state |-> state,
   verified_zip |-> zip,
   verified_full_address |-> full]

\* default_result of verify_address with its status set
DefaultResult(status) ==
  Outcome(False, Str(status), Null, Null, Null, Null, Null)

\* mutation of NotAttempted: verified starts out False as in default_result
NotAttemptedFalse ==
  [verified |-> False,
   verification_status |-> Str("not_attempted"),
   verified_street |-> Null,
   verified_city |-> Null,
   verified_state |-> Null,
   verified_zip |-> Null,
   verified_full_address |-> Null]

\* the fields scan_mail adds when Smarty is not used
NotAttempted ==
  Outcome(Null, Str("not_attempted"), Null, Null, Null, Null, Null)

\* f"{zipcode}-{plus4_code}" if plus4_code else zipcode
VerifiedZip(candidate) ==
  IF Truthy(candidate.plus4_code)
  THEN Str(PyFormat(candidate.zipcode) \o "-"
           \o PyFormat(candidate.plus4_code))
  ELSE candidate.zipcode

\* mutation of VerifiedFull: a comma between the state and the zip, the
\* way full_address is joined
VerifiedFullCommas(candidate) ==
  Str(PyFormat(candidate.delivery_line_1) \o ", "
      \o PyFormat(candidate.city_name) \o ", "
      \o PyFormat(candidate.state_abbreviation) \o ", "
      \o PyFormat(VerifiedZip(candidate)))

\* f"{verified_street}, {verified_city}, {verified_state} {verified_zip}"
VerifiedFull(candidate) ==
  Str(PyFormat(candidate.delivery_line_1) \o ", "
      \o PyFormat(candidate.city_name) \o ", "
      \o PyFormat(candidate.state_abbreviation) \o " "
      \o PyFormat(VerifiedZip(candidate)))

\* mutation of DpvStatus: the verified flag stays set in the last branch
DpvStatusFlagSet(dpv_match_code) ==
  IF dpv_match_code \in {Str("Y"), Str("D"), Str("S")}
  THEN [status |-> IF dpv_match_code = Str("Y") THEN Str("verified")
                   ELSE Str("verified_missing_secondary"),
        verified |-> True]
  ELSE [status |-> Str("failed"), verified |-> True]

\* the status and the verified flag for a DPV match code
DpvStatus(dpv_match_code) ==
  IF dpv_match_code = Str("Y")
  THEN [status |-> Str("verified"), verified |-> True]
  ELSE IF dpv_match_code = Str("D")
  THEN [status |-> Str("verified_missing_secondary"), verified |-> True]
  ELSE IF dpv_match_code = Str("S")
  THEN [status |-> Str("verified_missing_secondary"), verified |-> True]
  ELSE [status |-> Str("failed"), verified |-> False]

\* the outcome built from the first candidate of lookup.result
CandidateOutcome(candidate) ==
  Outcome(DpvStatus(candidate.dpv_match_code).verified,
          DpvStatus(candidate.dpv_match_code).status,
          candidate.delivery_line_1,
          candidate.city_name,
          candidate.state_abbreviation,
          VerifiedZip(candidate),
          VerifiedFull(candidate))

\* mutation of InsufficientData: only None counts as a missing street
InsufficientDataNoneOnly(street) == street = Null

\* `if not street`
InsufficientData(street) == ~Truthy(street)

\* mutation of NotConfigured: the client check is left out
NotConfiguredUnchecked(client) == FALSE

\* `if not self.smarty_client`
NotConfigured(client) == ~client

\* mutation of SendLookup: a failed call is sent a second time
SendLookupRetry(response) ==
  IF response.kind \in {"SmartyException", "Exception"}
  THEN [exc |-> response.kind, result |-> <<>>, sent |-> 2]
  ELSE [exc |-> "none", result |-> response.result, sent |-> 1]

\* the lookup is built and sent once; send_lookup raises or fills
\* lookup.result
SendLookup(response) ==
  IF response.kind \in {"SmartyException", "Exception"}
  THEN [exc |-> response.kind, result |-> <<>>, sent |-> 1]
  ELSE [exc |-> "none", result |-> response.result, sent |-> 1]

\* mutation of InvalidOutcome: default_result is returned for no match
InvalidOutcomeDefault == DefaultResult("error")

\* the dict returned when lookup.result is empty
InvalidOutcome ==
  Outcome(False, Str("invalid"), Null, Null, Null, Null, Null)

\* mutation of FirstCandidate: the last candidate is taken
FirstCandidateLast(lookup_result) == lookup_result[Len(lookup_result)]

\* candidate = result[0]
FirstCandidate(lookup_result) == lookup_result[1]

\* MailScanner.verify_address.  client: whether self.smarty_client is set;
\* response: what send_lookup does, either raising or filling
\* lookup.result.  sent counts the calls of send_lookup.
VerifyAddress(street, city, state, zipcode, client, response) ==
  IF InsufficientData(street)
  THEN [out |-> DefaultResult("insufficient_data"), sent |-> 0]
  ELSE IF NotConfigured(client)
  THEN [out |-> DefaultResult("not_configured"), sent |-> 0]
  ELSE LET lookup == SendLookup(response)
       IN IF lookup.exc = "SmartyException"
          THEN [out |-> Outcome(False, Str("error"), Null, Null, Null, Null,
                                Null),
                sent |-> lookup.sent]
          ELSE IF lookup.exc = "Exception"
          THEN [out |-> DefaultResult("error"), sent |-> lookup.sent]
          ELSE IF lookup.result = <<>>
          THEN [out |-> InvalidOutcome, sent |-> lookup.sent]
          ELSE [out |-> CandidateOutcome(FirstCandidate(lookup.result)),
                sent |-> lookup.sent]

\* a candidate of the verification service
Candidate(line, city, state, zip, plus4, dpv) ==
  [delivery_line_1 |-> line, city_name |-> city,
   state_abbreviation |-> state, zipcode |-> zip, plus4_code |-> plus4,
   dpv_match_code |-> dpv]

DpvCodes == {Str("Y"), Str("D"), Str("S"), Str("N"), Str(""), Null}

\* the candidates the service may put first
Candidates ==
  {Candidate(Str("1 INFINITE LOOP"), city, Str("CA"), Str("95014"), plus4,
             dpv) :
     city \in {Str("CUPERTINO"), Null},
     plus4 \in {Null, Str(""), Str("2083")},
     dpv \in DpvCodes}

\* the candidates that may follow the first one
LaterCandidates ==
  {Candidate(Str("2 INFINITE LOOP"), Str("CUPERTINO"), Str("CA"),
             Str("95014"), Str("2084"), dpv) : dpv \in {Str("Y"), Str("N")}}

RECURSIVE SeqsUpTo(_, _)
\* the sequences over S of length at most n
SeqsUpTo(S, n) ==
  IF n <= 0 THEN {<<>>}
  ELSE {<<>>} \cup {<<x>> \o t : x \in S, t \in SeqsUpTo(S, n - 1)}

\* lookup.result after send_lookup: empty, or up to MaxCandidates candidates
Results ==
  {<<>>} \cup {<<c>> \o t : c \in Candidates,
                           t \in SeqsUpTo(LaterCandidates, MaxCandidates - 1)}

\* what a call of send_lookup may do
Responses ==
  {[kind |-> "SmartyException", result |-> <<>>],
   [kind |-> "Exception", result |-> <<>>]}
  \cup {[kind |-> "result", result |-> r] : r \in Results}

\* no call of send_lookup was made
NoResponse == [kind |-> "none", result |-> <<>>]

(***************************************************************************)
(* The catalogue of model replies.                                         *)
(***************************************************************************)
\* a JSON object with the six keys of the prompt
ReplyObject(sender, street, city, state, zip, category) ==
  JsonObject([sender_name |-> sender, street |-> street, city |-> city,
              state |-> state, zip |-> zip, category |-> category])

\* objects that vary the four address members
AddressObjects ==
  {ReplyObject(Str("Jane Doe"), street, city, state, zip,
               Str("Wedding Invitation")) :
     street \in {Absent, Null, Str(""), Str("1 Infinite Loop"), Num("0"),
                 Num("42")},
     city \in {Null, Str("Cupertino")},
     state \in {Absent, Str("CA")},
     zip \in {Null, Str("95014"), Num("95014")}}

\* objects that vary the name and the category
LabelObjects ==
  {ReplyObject(sender, Str("1 Infinite Loop"), Str("Cupertino"), Str("CA"),
               Str("95014"), category) :
     sender \in {Absent, Null, Str("Jane Doe"), Num("7")},
     category \in {Absent, Null, Str("Fan Letters"), Str("Other"),
                   Str("Spam"), Num("3")}}

\* the reply bodies that are put into every wrapping
WrappedBodies ==
  {JsonTok(ReplyObject(Str("Jane Doe"), Str("1 Infinite Loop"),
                       Str("Cupertino"), Str("CA"), Str("95014"),
                       Str("Other"))),
   JsonTok(JsonArray), JsonTok(JsonNull), JsonTok(JsonString), TextTok}

\* the ways a body is laid out in the reply text
Wrappings ==
  {"plain", "padded", "json_fence", "json_fence_padded", "bare_fence",
   "open_only", "close_only", "prose_then_fence"}

Wrap(w, body) ==
  CASE w = "plain" -> <<body>>
    [] w = "padded" -> <<WsTok, body, WsTok>>
    [] w = "json_fence" -> <<FenceTok, LangTok, WsTok, body, WsTok, FenceTok>>
    [] w = "json_fence_padded" ->
         <<WsTok, FenceTok, LangTok, WsTok, body, WsTok, FenceTok, WsTok>>
    [] w = "bare_fence" -> <<FenceTok, WsTok, body, WsTok, FenceTok>>
    [] w = "open_only" -> <<FenceTok, LangTok, WsTok, body>>
    [] w = "close_only" -> <<body, WsTok, FenceTok>>
    [] w = "prose_then_fence" ->
         <<TextTok, WsTok, FenceTok, LangTok, WsTok, body, WsTok, FenceTok>>

\* response.text of a vision call that returned
Replies ==
  {<<>>}
  \cup {<<JsonTok(o)>> : o \in AddressObjects \cup LabelObjects}
  \cup {Wrap(w, b) : w \in Wrappings, b \in WrappedBodies}

\* no reply was received
NoReply == <<[tok |-> "none", val |-> NoJson]>>

(***************************************************************************)
(* The scanner.                                                            *)
(***************************************************************************)
\* no dict has been built
NoRecord == [method |-> Null]

NoText == <<"?">>

NoCalls == [gemini |-> 0, tesseract |-> 0, smarty |-> 0]

\* no verify_address call has been made
NoVerifyCall ==
  [made |-> FALSE, street |-> Null, city |-> Null, state |-> Null,
   zipcode |-> Null, response |-> NoResponse, out |-> NotAttempted,
   sent |-> 0]

\* image_source of scan_mail: a path that does not exist, a path that
\* does, or a file-like object
ImageSources == {"missing_path", "path", "buffer"}

\* MailScanner.__init__, with the availability flags the imports set;
\* genai_api_key is the key genai.configure has set for the process: the
\* constructor's argument, the GEMINI_API_KEY variable, or none yet
InitScanner ==
  \E use_gemini_arg \in BOOLEAN, GEMINI_AVAILABLE \in BOOLEAN,
     gemini_api_key \in BOOLEAN, GEMINI_API_KEY \in BOOLEAN,
     use_smarty_arg \in BOOLEAN,
     SMARTY_AVAILABLE \in BOOLEAN, auth_id \in BOOLEAN,
     auth_token \in BOOLEAN, tesseract \in BOOLEAN, pil \in BOOLEAN :
    /\ tesseract => pil
    /\ TESSERACT_AVAILABLE = tesseract
    /\ PIL_AVAILABLE = pil
    /\ use_gemini = (use_gemini_arg /\ GEMINI_AVAILABLE
                     /\ (gemini_api_key \/ GEMINI_API_KEY))
    /\ genai_api_key =
         IF use_gemini_arg /\ GEMINI_AVAILABLE
            /\ (gemini_api_key \/ GEMINI_API_KEY)
         THEN (IF gemini_api_key THEN "argument" ELSE "environment")
         ELSE "unconfigured"
    /\ use_smarty = (use_smarty_arg /\ SMARTY_AVAILABLE /\ auth_id
                     /\ auth_token)
    /\ smarty_client = (use_smarty_arg /\ SMARTY_AVAILABLE /\ auth_id
                        /\ auth_token)

\* no scan_mail or verify_address invocation is under way
InitScan ==
  /\ pc = "idle"
  /\ image_source = "none"
  /\ result = NoRecord
  /\ raised = "none"
  /\ reply = NoReply
  /\ ocr_text = NoText
  /\ vision_failed = FALSE
  /\ calls = NoCalls
  /\ verify_call = NoVerifyCall
  /\ prev_call = NoVerifyCall

\* a session without tokens
NoSession == [access_token |-> "None", refresh_token |-> "None"]

\* the web application at rest: no upload_files request, no
\* create_address_pdf call, no scan counted this month, no sign_in call,
\* nobody logged in and no request to a wrapped route
InitWeb ==
  /\ up_pc = "idle"
  /\ files = <<>>
  /\ idx = 0
  /\ scanned_count = 0
  /\ errors = <<>>
  /\ created_results = <<>>
  /\ visited = <<>>
  /\ image_bytes = 0
  /\ pdf_pc = "idle"
  /\ addresses = 0
  /\ pdf_idx = 0
  /\ page_num = 0
  /\ placed = <<>>
  /\ pages = 0
  /\ scans_this_month = 0
  /\ si_pc = "idle"
  /\ attempt = 0
  /\ auth_calls = 0
  /\ si_result = [ok |-> FALSE, error |-> "none"]
  /\ si_seen = <<>>
  /\ rq_pc = "idle"
  /\ session = NoSession
  /\ rq_in = [had_token |-> FALSE, get_user |-> "none", refresh |-> "none"]
  /\ rq_user = "None"
  /\ handler_ran = FALSE
  /\ rq_response = "none"

Init == InitScanner /\ InitScan /\ InitWeb

\* mutation of PathMissing: the existence check is left out
PathMissingUnchecked(src) == FALSE

\* isinstance(image_source, (str, Path)) and not os.path.exists(image_source)
PathMissing(src) == src = "missing_path"

\* mutation of ChooseExtractor: with no OCR method the scan goes on
ChooseExtractorSkips(gemini_on, tesseract_on) ==
  IF gemini_on THEN [pc |-> "gemini", raised |-> "none"]
  ELSE IF tesseract_on THEN [pc |-> "tesseract", raised |-> "none"]
  ELSE [pc |-> "verify", raised |-> "none"]

\* `if self.use_gemini ... elif TESSERACT_AVAILABLE ... else: raise`
ChooseExtractor(gemini_on, tesseract_on) ==
  IF gemini_on THEN [pc |-> "gemini", raised |-> "none"]
  ELSE IF tesseract_on THEN [pc |-> "tesseract", raised |-> "none"]
  ELSE [pc |-> "raised", raised |-> "RuntimeError"]

\* scan_mail up to the choice of the extractor: the path check, then
\* Gemini, Tesseract or RuntimeError
ScanMail(src) ==
  /\ pc = "idle"
  /\ image_source' = src
  /\ result' = NoRecord
  /\ reply' = NoReply
  /\ ocr_text' = NoText
  /\ vision_failed' = FALSE
  /\ calls' = NoCalls
  /\ verify_call' = NoVerifyCall
  /\ IF PathMissing(src)
     THEN pc' = "raised" /\ raised' = "FileNotFoundError"
     ELSE /\ pc' = ChooseExtractor(use_gemini, TESSERACT_AVAILABLE).pc
          /\ raised' = ChooseExtractor(use_gemini, TESSERACT_AVAILABLE).raised
  /\ UNCHANGED <<config, prev_call, web>>

\* mutation of GeminiExcept: the fallback is taken without the
\* TESSERACT_AVAILABLE test
GeminiExceptAlwaysFallback(exc) == "NameError"

\* the except clause of _scan_with_gemini for the exception exc: with
\* Tesseract available the fallback call names image_path, which is no
\* name of the method or the module, so NameError leaves the handler;
\* without Tesseract exc is raised again
GeminiExcept(exc) ==
  IF TESSERACT_AVAILABLE THEN "NameError" ELSE exc

\* mutation of GeminiTry: the record is labelled with the other method
GeminiTryMislabel(response_text) ==
  LET parsed == ParseGeminiResponse(response_text)
      with_method == [method |-> Str("tesseract")] @@ parsed.rec
      full == FullAddress(with_method)
  IN IF parsed.exc # "none" THEN [exc |-> parsed.exc, rec |-> NoRecord]
     ELSE IF full.exc # "none" THEN [exc |-> full.exc, rec |-> NoRecord]
     ELSE [exc |-> "none",
           rec |-> [full_address |-> full.val] @@ with_method]

\* the try block of _scan_with_gemini once the model has replied
GeminiTry(response_text) ==
  LET parsed == ParseGeminiResponse(response_text)
      with_method == [method |-> Str("gemini")] @@ parsed.rec
      full == FullAddress(with_method)
  IN IF parsed.exc # "none" THEN [exc |-> parsed.exc, rec |-> NoRecord]
     ELSE IF full.exc # "none" THEN [exc |-> full.exc, rec |-> NoRecord]
     ELSE [exc |-> "none",
           rec |-> [full_address |-> full.val] @@ with_method]

\* _scan_with_gemini when Image.open or generate_content raises
GeminiCallFails(stage) ==
  /\ pc = "gemini"
  /\ PIL_AVAILABLE
  /\ stage \in {"UnidentifiedImageError", "TransportError"}
  /\ calls' = [calls EXCEPT !.gemini =
                 IF stage = "TransportError" THEN @ + 1 ELSE @]
  /\ vision_failed' = TRUE
  /\ pc' = "raised"
  /\ raised' = GeminiExcept(stage)
  /\ UNCHANGED <<config, prev_call, web>>
  /\ UNCHANGED <<image_source, result, reply, ocr_text, verify_call>>

\* _scan_with_gemini when PIL is not installed: Image is no name
GeminiNoImage ==
  /\ pc = "gemini"
  /\ ~PIL_AVAILABLE
  /\ vision_failed' = TRUE
  /\ pc' = "raised"
  /\ raised' = GeminiExcept("NameError")
  /\ UNCHANGED <<config, prev_call, web>>
  /\ UNCHANGED <<image_source, result, reply, ocr_text, calls,
                 verify_call>>

\* _scan_with_gemini when the model replies with response_text
GeminiReply(response_text) ==
  /\ pc = "gemini"
  /\ PIL_AVAILABLE
  /\ calls' = [calls EXCEPT !.gemini = @ + 1]
  /\ reply' = response_text
  /\ LET tried == GeminiTry(response_text)
     IN IF tried.exc = "none"
        THEN /\ result' = tried.rec
             /\ pc' = "verify"
             /\ raised' = "none"
             /\ vision_failed' = FALSE
        ELSE /\ result' = NoRecord
             /\ pc' = "raised"
             /\ raised' = GeminiExcept(tried.exc)
             /\ vision_failed' = TRUE
  /\ UNCHANGED <<config, prev_call, web>>
  /\ UNCHANGED <<image_source, ocr_text, verify_call>>

\* _scan_with_tesseract when Image.open or image_to_string raises
TesseractFails(stage) ==
  /\ pc = "tesseract"
  /\ stage \in {"UnidentifiedImageError", "TesseractError"}
  /\ calls' = [calls EXCEPT !.tesseract =
                 IF stage = "TesseractError" THEN @ + 1 ELSE @]
  /\ pc' = "raised"
  /\ raised' = stage
  /\ UNCHANGED <<config, prev_call, web>>
  /\ UNCHANGED <<image_source, result, reply, ocr_text,
                 vision_failed, verify_call>>

\* _scan_with_tesseract when the engine reads text off the image
TesseractReads(text) ==
  /\ pc = "tesseract"
  /\ calls' = [calls EXCEPT !.tesseract = @ + 1]
  /\ ocr_text' = text
  /\ result' = [method |-> Str("tesseract")] @@ ParseAddressText(text)
  /\ pc' = "verify"
  /\ UNCHANGED <<config, prev_call, web>>
  /\ UNCHANGED <<image_source, raised, reply, vision_failed,
                 verify_call>>

\* the verify_address call with its arguments, the service's answer and
\* the outcome
VerifyCall(street, city, state, zipcode, response) ==
  LET v == VerifyAddress(street, city, state, zipcode, smarty_client,
                         response)
  IN [made |-> TRUE, street |-> street, city |-> city, state |-> state,
      zipcode |-> zipcode, response |-> response, out |-> v.out,
      sent |-> v.sent]

\* the service answers exactly when send_lookup is called
Answered(call) == (call.sent > 0) <=> (call.response # NoResponse)

\* mutation of ClientAfterCall: the client is dropped after a failed call
ClientAfterCallDropped(client, call) ==
  IF call.out.verification_status = Str("error") THEN FALSE ELSE client

\* self.smarty_client after a verify_address call: the method assigns
\* nothing to self
ClientAfterCall(client, call) == client

\* the flags and clients verify_address cannot reach
config_rest ==
  <<use_gemini, use_smarty, TESSERACT_AVAILABLE, PIL_AVAILABLE, genai_api_key>>

\* mutation of AfterVerify: an error outcome sends the scan back to the
\* verification step
AfterVerifyRetry(out) ==
  IF out.verification_status = Str("error") THEN "verify" ELSE "done"

\* `return result` once the outcome is merged, whatever the outcome
AfterVerify(out) == "done"

\* scan_mail with Smarty enabled: verify_address on the extracted fields,
\* result.update(verification_result), return
ScanVerify(response) ==
  /\ pc = "verify"
  /\ use_smarty
  /\ LET call == VerifyCall(DictGet(result, "street"),
                            DictGet(result, "city"),
                            DictGet(result, "state"),
                            DictGet(result, "zip"), response)
     IN /\ Answered(call)
        /\ verify_call' = call
        /\ calls' = [calls EXCEPT !.smarty = @ + call.sent]
        /\ result' = DictUpdate(result, call.out)
        /\ smarty_client' = ClientAfterCall(smarty_client, call)
        /\ pc' = AfterVerify(call.out)
  /\ UNCHANGED <<config_rest, prev_call, web>>
  /\ UNCHANGED <<image_source, raised, reply, ocr_text, vision_failed>>

\* scan_mail with Smarty not used: the default verification fields, return
ScanNoVerify ==
  /\ pc = "verify"
  /\ ~use_smarty
  /\ result' = DictUpdate(result, NotAttempted)
  /\ pc' = "done"
  /\ UNCHANGED <<config, prev_call, web>>
  /\ UNCHANGED <<image_source, raised, reply, ocr_text,
                 vision_failed, calls, verify_call>>

\* the caller has the dict, the outcome or the exception; the scanner is
\* free again
Return ==
  /\ pc \in {"done", "raised", "verify_done"}
  /\ pc' = "idle"
  /\ image_source' = "none"
  /\ result' = NoRecord
  /\ raised' = "none"
  /\ reply' = NoReply
  /\ ocr_text' = NoText
  /\ vision_failed' = FALSE
  /\ calls' = NoCalls
  /\ verify_call' = NoVerifyCall
  /\ UNCHANGED <<config, prev_call, web>>

\* the arguments of a direct verify_address call
StreetArgs == {Null, Str(""), Str("1 Infinite Loop"), Num("0")}

CityArgs == {Null, Str("Cupertino")}

StateArgs == {Null, Str("CA")}

ZipArgs == {Null, Str("95014")}

\* verify_address called on its own, outside scan_mail
VerifyAddressCall(street, city, state, zipcode, response) ==
  /\ pc = "idle"
  /\ LET call == VerifyCall(street, city, state, zipcode, response)
     IN /\ Answered(call)
        /\ verify_call' = call
        /\ calls' = [NoCalls EXCEPT !.smarty = call.sent]
        /\ smarty_client' = ClientAfterCall(smarty_client, call)
  /\ pc' = "verify_done"
  /\ UNCHANGED <<config_rest, prev_call, web>>
  /\ UNCHANGED <<image_source, result, raised, reply, ocr_text,
                 vision_failed>>

Next ==
  \/ \E src \in ImageSources : ScanMail(src)
  \/ \E stage \in {"UnidentifiedImageError", "TransportError"} :
       GeminiCallFails(stage)
  \/ GeminiNoImage
  \/ \E response_text \in Replies : GeminiReply(response_text)
  \/ \E stage \in {"UnidentifiedImageError", "TesseractError"} :
       TesseractFails(stage)
  \/ \E text \in OcrTexts : TesseractReads(text)
  \/ \E response \in Responses \cup {NoResponse} : ScanVerify(response)
  \/ ScanNoVerify
  \/ Return
  \/ \E street \in StreetArgs, city \in CityArgs, state \in StateArgs,
        zipcode \in ZipArgs, response \in Responses \cup {NoResponse} :
       VerifyAddressCall(street, city, state, zipcode, response)

Spec == Init /\ [][Next]_vars

\* a step of a scan under way: an external call returns or fails and the
\* code up to the next call, or the return, runs
ScanStep ==
  \/ \E stage \in {"UnidentifiedImageError", "TransportError"} :
       GeminiCallFails(stage)
  \/ GeminiNoImage
  \/ \E response_text \in Replies : GeminiReply(response_text)
  \/ \E stage \in {"UnidentifiedImageError", "TesseractError"} :
       TesseractFails(stage)
  \/ \E text \in OcrTexts : TesseractReads(text)
  \/ \E response \in Responses \cup {NoResponse} : ScanVerify(response)
  \/ ScanNoVerify

\* every external call of a scan returns or fails: the calls block, the
\* code between them has no loop
SpecLive == Spec /\ WF_vars(ScanStep)

(***************************************************************************)
(* verify_address called twice on one scanner against a stub service that  *)
(* answers the same request the same way.                                  *)
(***************************************************************************)
\* what the stub service does with a lookup
StubResponses ==
  {[kind |-> "SmartyException", result |-> <<>>],
   [kind |-> "Exception", result |-> <<>>],
   [kind |-> "result", result |-> <<>>],
   [kind |-> "result",
    result |-> <<Candidate(Str("1 INFINITE LOOP"), Str("CUPERTINO"),
                           Str("CA"), Str("95014"), Null, Str("Y"))>>],
   [kind |-> "result",
    result |-> <<Candidate(Str("1 INFINITE LOOP"), Str("CUPERTINO"),
                           Str("CA"), Str("95014"), Str("2083"),
                           Str("N"))>>]}

\* the first verify_address call; response is the stub's answer to this
\* request, used when the lookup is sent
RepeatFirst(street, city, response) ==
  /\ pc = "idle"
  /\ LET call == VerifyCall(street, city, Str("CA"), Str("95014"), response)
     IN /\ verify_call' = call
        /\ calls' = [NoCalls EXCEPT !.smarty = call.sent]
        /\ smarty_client' = ClientAfterCall(smarty_client, call)
  /\ pc' = "verify_done"
  /\ UNCHANGED <<config_rest, prev_call, web>>
  /\ UNCHANGED <<image_source, result, raised, reply, ocr_text,
                 vision_failed>>

\* the second verify_address call on the same scanner; the stub answers a
\* request it has seen as it did before
RepeatSecond(street, city, response) ==
  /\ pc = "verify_done"
  /\ verify_call.made
  /\ ~prev_call.made
  /\ (street = verify_call.street /\ city = verify_call.city) =>
       response = verify_call.response
  /\ LET call == VerifyCall(street, city, Str("CA"), Str("95014"), response)
     IN /\ verify_call' = call
        /\ calls' = [NoCalls EXCEPT !.smarty = call.sent]
        /\ smarty_client' = ClientAfterCall(smarty_client, call)
  /\ prev_call' = verify_call
  /\ UNCHANGED <<config_rest, web>>
  /\ UNCHANGED <<pc, image_source, result, raised, reply, ocr_text,
                 vision_failed>>

\* both outcomes are with the caller
RepeatReturn ==
  /\ pc = "verify_done"
  /\ prev_call.made
  /\ pc' = "idle"
  /\ verify_call' = NoVerifyCall
  /\ prev_call' = NoVerifyCall
  /\ calls' = NoCalls
  /\ UNCHANGED <<config_rest, web>>
  /\ UNCHANGED <<smarty_client, image_source, result, raised, reply,
                 ocr_text, vision_failed>>

NextRepeat ==
  \/ \E street \in StreetArgs, city \in CityArgs,
        response \in StubResponses : RepeatFirst(street, city, response)
  \/ \E street \in StreetArgs, city \in CityArgs,
        response \in StubResponses : RepeatSecond(street, city, response)
  \/ RepeatReturn

SpecRepeat == Init /\ [][NextRepeat]_vars

(***************************************************************************)
(* upload_files of src/app.py: one request carrying a batch of images.     *)
(***************************************************************************)
MaxFiles == 3

ALLOWED_EXTENSIONS == {"png", "jpg", "jpeg", "gif", "webp", "heic", "heif"}

\* str.lower() on one character
ToLower(c) ==
  LET upper == Chars("ABCDEFGHIJKLMNOPQRSTUVWXYZ")
      lower == Chars("abcdefghijklmnopqrstuvwxyz")
  IN IF \E i \in DOMAIN upper : upper[i] = c
     THEN lower[CHOOSE i \in DOMAIN upper : upper[i] = c]
     ELSE c

allowed_file(filename) ==
  LET dots == {i \in DOMAIN filename : filename[i] = "."}
      last == CHOOSE i \in dots : \A j \in dots : j <= i
      ext == SubSeq(filename, last + 1, Len(filename))
  IN /\ dots # {}
     /\ CharsToStr([i \in DOMAIN ext |-> ToLower(ext[i])])
          \in ALLOWED_EXTENSIONS

RECURSIVE SplitWords(_, _)
\* str.split(): the runs of non-blank characters
SplitWords(cs, cur) ==
  IF cs = <<>> THEN (IF cur = <<>> THEN <<>> ELSE <<cur>>)
  ELSE IF Head(cs) \in Space
  THEN (IF cur = <<>> THEN SplitWords(Tail(cs), <<>>)
        ELSE <<cur>> \o SplitWords(Tail(cs), <<>>))
  ELSE SplitWords(Tail(cs), Append(cur, Head(cs)))

RECURSIVE JoinWords(_, _)
\* sep.join(words) on character sequences
JoinWords(words, sep) ==
  IF words = <<>> THEN <<>>
  ELSE IF Len(words) = 1 THEN words[1]
  ELSE words[1] \o <<sep>> \o JoinWords(Tail(words), sep)

\* the characters secure_filename keeps: [A-Za-z0-9_.-]
FilenameAscii(c) == IsWord(c) \/ c \in {".", "-"}

RECURSIVE StripSet(_, _)
\* str.strip(chars)
StripSet(cs, chars) ==
  IF cs # <<>> /\ Head(cs) \in chars THEN StripSet(Tail(cs), chars)
  ELSE IF cs # <<>> /\ cs[Len(cs)] \in chars
  THEN StripSet(SubSeq(cs, 1, Len(cs) - 1), chars)
  ELSE cs

\* werkzeug's secure_filename: path separators become blanks, blank runs
\* become one underscore, other characters outside [A-Za-z0-9_.-] are
\* dropped, leading and trailing dots and underscores are removed
secure_filename(filename) ==
  LET flat == [i \in DOMAIN filename |->
                 IF filename[i] = "/" THEN " " ELSE filename[i]]
      joined == JoinWords(SplitWords(flat, <<>>), "_")
  IN StripSet(SelectSeq(joined, FilenameAscii), {".", "_"})

NoException == [class |-> "none", message |-> ""]

\* mutation of CatchesException: the loop body has no except clause
CatchesExceptionNever(exc) == FALSE

\* except Exception as e: the classes raised here all derive from it
CatchesException(exc) == exc.class \in {"Exception", "OSError", "ValueError"}

UploadedFile(filename, fate) == [filename |-> filename, fate |-> fate]

FileKinds ==
  {UploadedFile(Chars("a.jpg"), fate) :
     fate \in {"ok", "read_raises", "scan_raises", "store_fails",
               "increment_raises"}}
    \cup {UploadedFile(Chars("My Mail.GIF"), "store_fails"),
          UploadedFile(Chars("notes.txt"), "ok"),
          UploadedFile(Chars("README"), "ok"),
          UploadedFile(<<>>, "ok")}

\* the body of the try block for one file: the exception it raises if any,
\* whether create_scan_result stored the record, the error it appends, and
\* the BytesIO of line 214: not created, still open, or closed (line 221)
TryBody(file) ==
  LET filename == secure_filename(file.filename)
  IN CASE file.fate = "read_raises" ->
            [exc |-> [class |-> "OSError", message |-> "read failed"],
             stored |-> FALSE, errors |-> <<>>, buffer |-> "none"]
       [] file.fate = "scan_raises" ->
            [exc |-> [class |-> "ValueError",
                      message |-> "No extraction method available"],
             stored |-> FALSE, errors |-> <<>>, buffer |-> "open"]
       [] file.fate = "store_fails" ->
            [exc |-> NoException, stored |-> FALSE, buffer |-> "closed",
             errors |-> <<CharsToStr(filename)
                            \o ": Failed to save to database">>]
       [] file.fate = "increment_raises" ->
            [exc |-> [class |-> "Exception", message |-> "rpc failed"],
             stored |-> TRUE, errors |-> <<>>, buffer |-> "closed"]
       [] OTHER ->
            [exc |-> NoException, stored |-> TRUE, errors |-> <<>>,
             buffer |-> "closed"]

\* the plan's scan_limit, scaled down
ScanLimit == 2

\* can_user_scan: true exactly when the monthly count is below the limit
can_user_scan(count) == count < ScanLimit

\* increment_scan_count: the monthly count goes up by one
increment_scan_count(count) == count + 1

\* a request arrives: what it carries, whether the subscription calls
\* succeed and what the gate answers; the checks ahead of the loop and the
\* loop's initial state
UploadFiles ==
  /\ up_pc = "idle"
  /\ \E has_files \in BOOLEAN, batch_files \in SeqsUpTo(FileKinds, MaxFiles),
        subscription_ok \in BOOLEAN, can_scan_success \in BOOLEAN :
       LET can_scan == can_scan_success /\ can_user_scan(scans_this_month)
       IN /\ files' = IF has_files THEN batch_files ELSE <<>>
          /\ up_pc' = IF ~has_files THEN "400"
                      ELSE IF \/ batch_files = <<>>
                              \/ batch_files[1].filename = <<>>
                      THEN "400"
                      ELSE IF ~subscription_ok THEN "500"
                      ELSE IF ~can_scan THEN "403"
                      ELSE "loop"
  /\ idx' = 0
  /\ scanned_count' = 0
  /\ errors' = <<>>
  /\ created_results' = <<>>
  /\ visited' = <<>>
  /\ image_bytes' = 0
  /\ UNCHANGED scans_this_month
  /\ UNCHANGED <<config, scan, prev_call, pdf, signin, authreq>>

\* one iteration of the loop over the files
ProcessFile ==
  /\ up_pc = "loop"
  /\ idx < Len(files)
  /\ LET file == files[idx + 1]
         shown == CharsToStr(file.filename)
         body == TryBody(file)
     IN IF file.filename # <<>> /\ allowed_file(file.filename)
        THEN /\ created_results' =
                  IF body.stored
                  THEN Append(created_results,
                              CharsToStr(secure_filename(file.filename)))
                  ELSE created_results
             /\ scanned_count' =
                  IF body.stored THEN scanned_count + 1 ELSE scanned_count
             /\ scans_this_month' =
                  IF body.stored /\ body.exc = NoException
                  THEN increment_scan_count(scans_this_month)
                  ELSE scans_this_month
             /\ image_bytes' =
                  CASE body.buffer = "open" -> idx + 1
                    [] body.buffer = "closed" -> 0
                    [] OTHER -> image_bytes
             /\ IF body.exc = NoException
                THEN /\ errors' = errors \o body.errors
                     /\ up_pc' = "loop"
                ELSE IF CatchesException(body.exc)
                THEN /\ errors' =
                          Append(errors, shown \o ": " \o body.exc.message)
                     /\ up_pc' = "loop"
                ELSE /\ errors' = errors
                     /\ up_pc' = "raised"
        ELSE /\ errors' = Append(errors, shown \o ": Invalid file type")
             /\ UNCHANGED <<up_pc, scanned_count, created_results,
                             image_bytes, scans_this_month>>
  /\ idx' = idx + 1
  /\ visited' = Append(visited, idx + 1)
  /\ UNCHANGED files
  /\ UNCHANGED <<config, scan, prev_call, pdf, signin, authreq>>

\* the loop is over: the response carries the counts and the errors
Respond ==
  /\ up_pc = "loop"
  /\ idx = Len(files)
  /\ up_pc' = "responded"
  /\ UNCHANGED <<files, idx, scanned_count, errors, created_results,
                 visited, image_bytes, scans_this_month>>
  /\ UNCHANGED <<config, scan, prev_call, pdf, signin, authreq>>

\* the request is over
UploadReturn ==
  /\ up_pc \in {"responded", "raised", "400", "500", "403"}
  /\ up_pc' = "idle"
  /\ files' = <<>>
  /\ idx' = 0
  /\ scanned_count' = 0
  /\ errors' = <<>>
  /\ created_results' = <<>>
  /\ visited' = <<>>
  /\ image_bytes' = 0
  /\ UNCHANGED scans_this_month
  /\ UNCHANGED <<config, scan, prev_call, pdf, signin, authreq>>

NextUpload ==
  \/ UploadFiles
  \/ ProcessFile
  \/ Respond
  \/ UploadReturn

SpecUpload == Init /\ [][NextUpload]_vars

(***************************************************************************)
(* The scanner next to the other requests of the process.                  *)
(***************************************************************************)
\* check_address: a frame that is present is read and genai.configure is
\* called with env_key, what os.getenv('GEMINI_API_KEY') gives, ahead of
\* the model call; every exception is caught
CheckAddress(has_frame, env_key) ==
  /\ genai_api_key = "environment" => env_key = "environment"
  /\ genai_api_key' = IF has_frame THEN env_key ELSE genai_api_key
  /\ UNCHANGED <<use_gemini, use_smarty, smarty_client, TESSERACT_AVAILABLE,
                 PIL_AVAILABLE>>
  /\ UNCHANGED <<scan, prev_call, web>>

NextRequests ==
  \/ Next
  \/ \E has_frame \in BOOLEAN, env_key \in {"environment", "None"} :
       CheckAddress(has_frame, env_key)

SpecRequests == Init /\ [][NextRequests]_vars

(***************************************************************************)
(* create_address_pdf of src/app.py: the label sheet.                      *)
(***************************************************************************)
MaxAddresses == 61

cols == 3

rows == 10

labels_per_page == cols * rows

\* mutation of StartsNewPage: the first label starts a page as well
StartsNewPageAtFirst(i, label_idx) == label_idx = 0

\* if idx > 0 and label_idx == 0
StartsNewPage(i, label_idx) == i > 0 /\ label_idx = 0

\* create_address_pdf is called with n addresses (download_pdf calls it
\* with a list that is not empty): the canvas and the counters
CreateAddressPdf(n) ==
  /\ pdf_pc = "idle"
  /\ pdf_pc' = "loop"
  /\ addresses' = n
  /\ pdf_idx' = 0
  /\ page_num' = 0
  /\ placed' = <<>>
  /\ pages' = 0
  /\ UNCHANGED <<config, scan, prev_call, batch, scans_this_month>>
  /\ UNCHANGED <<signin, authreq>>

\* one iteration of the loop: the slot, showPage when a page starts, the
\* label drawn on the current page
PlaceLabel ==
  /\ pdf_pc = "loop"
  /\ pdf_idx < addresses
  /\ LET label_idx == pdf_idx % labels_per_page
         col == label_idx % cols
         row == label_idx \div cols
         shown == IF StartsNewPage(pdf_idx, label_idx) THEN 1 ELSE 0
     IN /\ pages' = pages + shown
        /\ page_num' = page_num + shown
        /\ placed' = Append(placed, [page |-> pages + shown, row |-> row,
                                     col |-> col])
  /\ pdf_idx' = pdf_idx + 1
  /\ UNCHANGED <<pdf_pc, addresses>>
  /\ UNCHANGED <<config, scan, prev_call, batch, scans_this_month>>
  /\ UNCHANGED <<signin, authreq>>

\* c.save(): the page being drawn is given out and the file is written
Save ==
  /\ pdf_pc = "loop"
  /\ pdf_idx = addresses
  /\ pdf_pc' = "saved"
  /\ pages' = pages + 1
  /\ UNCHANGED <<addresses, pdf_idx, page_num, placed>>
  /\ UNCHANGED <<config, scan, prev_call, batch, scans_this_month>>
  /\ UNCHANGED <<signin, authreq>>

\* the file is with the caller
PdfReturn ==
  /\ pdf_pc = "saved"
  /\ pdf_pc' = "idle"
  /\ addresses' = 0
  /\ pdf_idx' = 0
  /\ page_num' = 0
  /\ placed' = <<>>
  /\ pages' = 0
  /\ UNCHANGED <<config, scan, prev_call, batch, scans_this_month>>
  /\ UNCHANGED <<signin, authreq>>

NextPdf ==
  \/ \E n \in 1..MaxAddresses : CreateAddressPdf(n)
  \/ PlaceLabel
  \/ Save
  \/ PdfReturn

SpecPdf == Init /\ [][NextPdf]_vars

(***************************************************************************)
(* sign_in of src/supabase_client.py.                                      *)
(***************************************************************************)
max_retries == 3

\* sub in text, on character sequences
Contains(text, sub) ==
  \E i \in 1..(Len(text) - Len(sub) + 1) :
    SubSeq(text, i, i + Len(sub) - 1) = sub

\* text.lower()
LowerChars(text) == [i \in DOMAIN text |-> ToLower(text[i])]

\* is_connection_error of the except clause
is_connection_error(error_msg) ==
  \/ Contains(error_msg, Chars("StreamReset"))
  \/ Contains(error_msg, Chars("stream_id"))
  \/ Contains(error_msg, Chars("RemoteProtocolError"))
  \/ Contains(error_msg, Chars("ConnectionError"))

\* mutation of Retry: any exception is retried
RetryAnyError(error_msg, n) == n < max_retries - 1

\* if is_connection_error and attempt < max_retries - 1: ... continue
Retry(error_msg, n) == is_connection_error(error_msg) /\ n < max_retries - 1

\* the error of the pair returned for an exception that is not retried
ErrorFor(error_msg) ==
  IF is_connection_error(error_msg)
  THEN "Connection error after multiple attempts. Please try again later."
  ELSE IF Contains(LowerChars(error_msg), Chars("timeout"))
  THEN "Request timed out. Please try again."
  ELSE IF Contains(LowerChars(error_msg), Chars("invalid"))
          \/ Contains(LowerChars(error_msg), Chars("password"))
  THEN "Invalid email or password"
  ELSE CharsToStr(error_msg)

\* sign_in is called: the loop starts at attempt 0
SignIn ==
  /\ si_pc = "idle"
  /\ si_pc' = "attempt"
  /\ attempt' = 0
  /\ auth_calls' = 0
  /\ si_result' = [ok |-> FALSE, error |-> "none"]
  /\ si_seen' = <<>>
  /\ UNCHANGED <<config, scan, prev_call, batch, scans_this_month>>
  /\ UNCHANGED <<pdf, authreq>>

\* one turn of the for statement: with the range not used up, the call,
\* then return or continue; with the range used up, the return after the
\* loop
SignInAttempt(outcome) ==
  /\ si_pc = "attempt"
  /\ IF attempt < max_retries
     THEN /\ auth_calls' = auth_calls + 1
          /\ si_seen' = Append(si_seen, outcome)
          /\ IF outcome.kind = "session"
             THEN /\ si_result' = [ok |-> TRUE, error |-> "none"]
                  /\ si_pc' = "returned"
                  /\ UNCHANGED attempt
             ELSE IF outcome.kind = "no_session"
             THEN /\ si_result' = [ok |-> FALSE,
                                   error |-> "Invalid credentials"]
                  /\ si_pc' = "returned"
                  /\ UNCHANGED attempt
             ELSE IF Retry(outcome.msg, attempt)
             THEN /\ attempt' = attempt + 1
                  /\ UNCHANGED <<si_pc, si_result>>
             ELSE /\ si_result' = [ok |-> FALSE,
                                   error |-> ErrorFor(outcome.msg)]
                  /\ si_pc' = "returned"
                  /\ UNCHANGED attempt
     ELSE /\ si_pc' = "returned"
          /\ si_result' =
               [ok |-> FALSE,
                error |-> "Failed to sign in after multiple attempts"]
          /\ UNCHANGED <<attempt, auth_calls, si_seen>>
  /\ UNCHANGED <<config, scan, prev_call, batch, scans_this_month>>
  /\ UNCHANGED <<pdf, authreq>>

\* the pair is with the caller
SignInReturn ==
  /\ si_pc = "returned"
  /\ si_pc' = "idle"
  /\ attempt' = 0
  /\ auth_calls' = 0
  /\ si_result' = [ok |-> FALSE, error |-> "none"]
  /\ si_seen' = <<>>
  /\ UNCHANGED <<config, scan, prev_call, batch, scans_this_month>>
  /\ UNCHANGED <<pdf, authreq>>

\* a step of a sign_in call under way: sign_in_with_password gives a
\* response with user and session or one without, or raises an exception
\* with a message
SignInStep ==
  \E outcome \in
       {[kind |-> "session", msg |-> <<>>],
        [kind |-> "no_session", msg |-> <<>>]}
         \cup {[kind |-> "exception", msg |-> Chars(m)] :
                 m \in {"StreamReset by peer", "Invalid stream_id 7",
                        "ConnectionError", "Read Timeout",
                        "Invalid login credentials", "Wrong Password",
                        "500 Server Error"}} :
    SignInAttempt(outcome)

NextSignIn ==
  \/ SignIn
  \/ SignInStep
  \/ SignInReturn

\* every call to the authentication service returns or raises
SpecSignIn == Init /\ [][NextSignIn]_vars /\ WF_vars(SignInStep)

(***************************************************************************)
(* require_auth and get_current_user of src/supabase_client.py.            *)
(***************************************************************************)
\* what supabase.auth.get_user may do with a token: a user, or an
\* exception with its message
GetUserOutcomes ==
  {[kind |-> "user", msg |-> <<>>]}
    \cup {[kind |-> "exception", msg |-> m] :
            m \in {Chars("Token has Expired"), Chars("invalid JWT"),
                   Chars("Connection reset")}}

\* what supabase.auth.refresh_session may do: a session with its user, a
\* session without a user, a response without a session, None, or an
\* exception
RefreshOutcomes ==
  {"session_user", "session_no_user", "no_session", "None", "exception"}

\* str(f) of the wrapped functions
FunctionReprs ==
  {Chars("<function upload_files at 0x7f1>"),
   Chars("<function api_subscription at 0x7f2>")}

\* get_current_user: the user it returns, the session it leaves, and the
\* outcome of the refresh it tried
get_current_user(sess, got, refreshed) ==
  IF sess.access_token = "None"
  THEN [user |-> "None", session |-> sess, refresh |-> "none"]
  ELSE IF got.kind = "user"
  THEN [user |-> "user", session |-> sess, refresh |-> "none"]
  ELSE IF /\ \/ Contains(LowerChars(got.msg), Chars("expired"))
             \/ Contains(LowerChars(got.msg), Chars("invalid"))
          /\ sess.refresh_token # "None"
  THEN IF refreshed \in {"session_user", "session_no_user"}
       THEN [user |-> IF refreshed = "session_user" THEN "user" ELSE "None",
             session |-> [access_token |-> "new", refresh_token |-> "new"],
             refresh |-> refreshed]
       ELSE [user |-> "None", session |-> NoSession, refresh |-> refreshed]
  ELSE [user |-> "None", session |-> NoSession, refresh |-> "none"]

\* mutation of UserIsNone: the test of the decorator is left out
UserIsNoneNever(user) == FALSE

\* if user is None
UserIsNone(user) == user = "None"

\* the login route stores the tokens of a sign_in that succeeded
Login(has_refresh) ==
  /\ rq_pc = "idle"
  /\ session' = [access_token |-> "old",
                 refresh_token |-> IF has_refresh THEN "old" ELSE "None"]
  /\ UNCHANGED <<rq_pc, rq_in, rq_user, handler_ran, rq_response>>
  /\ UNCHANGED <<config, scan, prev_call, batch, scans_this_month>>
  /\ UNCHANGED <<pdf, signin>>

\* decorated_function: get_current_user, then the unauthenticated response
\* or the route's function
AuthRequest(f_repr, got, refreshed) ==
  /\ rq_pc = "idle"
  /\ LET current == get_current_user(session, got, refreshed)
     IN /\ session' = current.session
        /\ rq_user' = current.user
        /\ rq_in' = [had_token |-> session.access_token # "None",
                     get_user |-> IF session.access_token = "None"
                                  THEN "none"
                                  ELSE IF got.kind = "user" THEN "user"
                                  ELSE CharsToStr(got.msg),
                     refresh |-> current.refresh]
        /\ IF UserIsNone(current.user)
           THEN /\ handler_ran' = FALSE
                /\ rq_response' = IF Contains(f_repr, Chars("/api/"))
                                  THEN "401" ELSE "redirect"
           ELSE /\ handler_ran' = TRUE
                /\ rq_response' = "handler"
  /\ rq_pc' = "done"
  /\ UNCHANGED <<config, scan, prev_call, batch, scans_this_month>>
  /\ UNCHANGED <<pdf, signin>>

\* the response is sent; the session stays with the browser
AuthReturn ==
  /\ rq_pc = "done"
  /\ rq_pc' = "idle"
  /\ rq_in' = [had_token |-> FALSE, get_user |-> "none", refresh |-> "none"]
  /\ rq_user' = "None"
  /\ handler_ran' = FALSE
  /\ rq_response' = "none"
  /\ UNCHANGED session
  /\ UNCHANGED <<config, scan, prev_call, batch, scans_this_month>>
  /\ UNCHANGED <<pdf, signin>>

NextAuth ==
  \/ \E has_refresh \in BOOLEAN : Login(has_refresh)
  \/ \E f_repr \in FunctionReprs, got \in GetUserOutcomes,
        refreshed \in RefreshOutcomes : AuthRequest(f_repr, got, refreshed)
  \/ AuthReturn

SpecAuth == Init /\ [][NextAuth]_vars

(***************************************************************************)
(* Properties.                                                             *)
(***************************************************************************)
\* an empty member: None, the empty string or a zero / false scalar
EmptyField(x) == x \in {Null, Str(""), Num("0"), False}

\* the non-empty ones of street, city, state, zip, in that order
PresentParts(rec) ==
  (IF EmptyField(rec.street) THEN <<>> ELSE <<rec.street.v>>)
  \o (IF EmptyField(rec.city) THEN <<>> ELSE <<rec.city.v>>)
  \o (IF EmptyField(rec.state) THEN <<>> ELSE <<rec.state.v>>)
  \o (IF EmptyField(rec.zip) THEN <<>> ELSE <<rec.zip.v>>)

\* the parts written out with ", " between them, null for no part
ExpectedFullAddress(rec) ==
  LET p == PresentParts(rec)
  IN CASE Len(p) = 0 -> Null
       [] Len(p) = 1 -> Str(p[1])
       [] Len(p) = 2 -> Str(p[1] \o ", " \o p[2])
       [] Len(p) = 3 -> Str(p[1] \o ", " \o p[2] \o ", " \o p[3])
       [] Len(p) = 4 ->
            Str(p[1] \o ", " \o p[2] \o ", " \o p[3] \o ", " \o p[4])

\* the five verified_* fields of an outcome are all null
VerifiedFieldsNull(out) ==
  /\ out.verified_street = Null
  /\ out.verified_city = Null
  /\ out.verified_state = Null
  /\ out.verified_zip = Null
  /\ out.verified_full_address = Null

VerifiedStatuses == {Str("verified"), Str("verified_missing_secondary")}

\* verified is true exactly for the two verified statuses, else false/null
VerifiedMatchesStatus(out) ==
  /\ (out.verified = True) <=> (out.verification_status \in VerifiedStatuses)
  /\ out.verified \in {True, False, Null}

\* C1: every record scan_mail returns, from either extractor, has
\* full_address equal to the non-empty ones of street, city, state, zip in
\* that order joined by ", ", and null when all four are empty.
C1_FullAddressIsJoin ==
  pc = "done" =>
    /\ result.method \in {Str("gemini"), Str("tesseract")}
    /\ result.full_address = ExpectedFullAddress(result)

\* a returned vision record with the city missing and the others joined
C1_Witness ==
  /\ pc = "done"
  /\ result.method = Str("gemini")
  /\ result.city = Null
  /\ result.full_address = Str("1 Infinite Loop, CA, 95014")

\* C2: verify_address answers insufficient_data exactly when its street
\* argument is empty or null, and then send_lookup is never called: the
\* street check comes before the client check and before the call.
C2_InsufficientIffNoStreet ==
  verify_call.made =>
    /\ (verify_call.out.verification_status = Str("insufficient_data"))
         <=> EmptyField(verify_call.street)
    /\ EmptyField(verify_call.street) =>
         /\ verify_call.sent = 0
         /\ verify_call.response = NoResponse
         /\ calls.smarty = 0

\* an empty-string street on a scanner without a client
C2_Witness ==
  /\ verify_call.made
  /\ verify_call.street = Str("")
  /\ ~smarty_client
  /\ verify_call.out.verification_status = Str("insufficient_data")

\* C3: in every outcome of verify_address and in every record of
\* scan_mail, verified is true if and only if the status is verified or
\* verified_missing_secondary; for any other status it is false or null.
C3_VerifiedIffStatus ==
  /\ verify_call.made => VerifiedMatchesStatus(verify_call.out)
  /\ pc = "done" => VerifiedMatchesStatus(result)

\* a returned record with status failed and verified false
C3_Witness ==
  /\ pc = "done"
  /\ result.verification_status = Str("failed")
  /\ result.verified = False
  /\ result.verified_street = Str("1 INFINITE LOOP")

\* the text is one JSON document, whitespace around it aside
IsJsonText(s) ==
  \E n \in 1..Len(s) :
    /\ s[n].tok = "json"
    /\ \A m \in 1..Len(s) : m # n => s[m] = WsTok

\* C4: a model reply whose text, once trimmed and freed of its ```json
\* fence, is not valid JSON never makes the scan raise: the six extracted
\* fields are all null and the scan goes on to verification and returns.
C4_MalformedReplyAllNull ==
  (reply # NoReply /\ ~IsJsonText(NormalizeReply(reply))) =>
    /\ pc \in {"verify", "done"}
    /\ raised = "none"
    /\ \A k \in FieldKeys : result[k] = Null
    /\ result.method = Str("gemini")
    /\ result.full_address = Null

\* a record returned for prose followed by a fenced object
C4_Witness ==
  /\ pc = "done"
  /\ reply = Wrap("prose_then_fence", JsonTok(JsonArray))
  /\ result.street = Null
  /\ result.verification_status \in
       {Str("insufficient_data"), Str("not_attempted")}

\* the vision call of the current scan raised a transport error
VisionCallRaised ==
  vision_failed /\ calls.gemini = 1 /\ reply = NoReply

\* C5: when the vision call raises a transport error and the local OCR
\* engine is available, scan_mail does not fail but returns a record of
\* method tesseract with the fields parsed from the OCR text.
C5_FallbackToLocalOcr ==
  (VisionCallRaised /\ TESSERACT_AVAILABLE) =>
    /\ pc # "raised"
    /\ calls.tesseract = 1
    /\ pc = "done" =>
         /\ result.method = Str("tesseract")
         /\ ocr_text = TextJaneDoe =>
              /\ result.sender_name = Str("Jane Doe")
              /\ result.street = Str("123 Main St")
              /\ result.city = Str("Springfield")
              /\ result.state = Str("IL")
              /\ result.zip = Str("62704")

\* C6: when the vision call raises and no local OCR engine is available,
\* scan_mail fails with the vision call's error and returns no record;
\* with vision disabled and no local OCR engine it fails with the
\* no-method error and calls no extractor and no verifier.
C6_NoExtractorFails ==
  /\ (VisionCallRaised /\ ~TESSERACT_AVAILABLE) =>
       /\ pc = "raised"
       /\ raised = "TransportError"
       /\ result = NoRecord
       /\ calls.tesseract = 0
       /\ calls.smarty = 0
  /\ (image_source \in {"path", "buffer"} /\ ~use_gemini
      /\ ~TESSERACT_AVAILABLE) =>
       /\ pc = "raised"
       /\ raised = "RuntimeError"
       /\ result = NoRecord
       /\ calls = NoCalls
       /\ ~verify_call.made

\* the transport error of the vision call leaves scan_mail
C6_Witness ==
  /\ pc = "raised"
  /\ VisionCallRaised
  /\ ~TESSERACT_AVAILABLE
  /\ raised = "TransportError"

\* the service answered the call with at least one candidate
CandidateReturned ==
  /\ verify_call.made
  /\ verify_call.sent > 0
  /\ verify_call.response.kind = "result"
  /\ Len(verify_call.response.result) >= 1

\* C7: with at least one candidate, verify_address uses the first one and
\* maps its DPV code: Y to verified / true, D or S to
\* verified_missing_secondary / true, anything else to failed / false.
C7_DpvMapping ==
  CandidateReturned =>
    LET first == verify_call.response.result[1]
        code == first.dpv_match_code
        out == verify_call.out
    IN /\ out.verified_street = first.delivery_line_1
       /\ code = Str("Y") =>
            out.verification_status = Str("verified") /\ out.verified = True
       /\ code \in {Str("D"), Str("S")} =>
            /\ out.verification_status = Str("verified_missing_secondary")
            /\ out.verified = True
       /\ code \notin {Str("Y"), Str("D"), Str("S")} =>
            out.verification_status = Str("failed") /\ out.verified = False

\* two candidates, the first with code S, the second with code N
C7_Witness ==
  /\ CandidateReturned
  /\ Len(verify_call.response.result) = 2
  /\ verify_call.response.result[1].dpv_match_code = Str("S")
  /\ verify_call.response.result[2].dpv_match_code = Str("N")
  /\ verify_call.out.verification_status = Str("verified_missing_secondary")

\* the service answered the call with no candidate
NoCandidateReturned ==
  /\ verify_call.made
  /\ ~EmptyField(verify_call.street)
  /\ verify_call.response = [kind |-> "result", result |-> <<>>]

\* C8: when the service returns no candidate for a non-empty street, the
\* outcome is status invalid, verified false, all verified_* fields null.
C8_NoCandidateInvalid ==
  NoCandidateReturned =>
    /\ verify_call.out.verification_status = Str("invalid")
    /\ verify_call.out.verified = False
    /\ VerifiedFieldsNull(verify_call.out)

\* a scan whose verification found no candidate
C8_Witness ==
  /\ pc = "done"
  /\ NoCandidateReturned
  /\ result.verification_status = Str("invalid")
  /\ result.street = Str("1 Infinite Loop")

\* the verification call raised
VerifyCallRaised ==
  /\ verify_call.made
  /\ verify_call.response.kind \in {"SmartyException", "Exception"}

\* C9: an error during the verification call gives status error, verified
\* false and null verified_* fields; verify_address hands its caller an
\* outcome, never an exception, and sends at most one lookup per call.
C9_ErrorOutcomeNoRetry ==
  /\ VerifyCallRaised =>
       /\ verify_call.out.verification_status = Str("error")
       /\ verify_call.out.verified = False
       /\ VerifiedFieldsNull(verify_call.out)
  /\ verify_call.made =>
       /\ pc \in {"done", "verify_done"}
       /\ raised = "none"
       /\ verify_call.sent <= 1
       /\ calls.smarty = verify_call.sent

\* a scan that returns its record although the service call raised
C9_Witness ==
  /\ pc = "done"
  /\ VerifyCallRaised
  /\ verify_call.response.kind = "Exception"
  /\ calls.smarty = 1
  /\ result.verification_status = Str("error")

\* C10: with a non-empty street and no service client, verify_address
\* answers not_configured, verified false, null verified_* fields, and
\* sends no lookup.
C10_NotConfigured ==
  (verify_call.made /\ ~EmptyField(verify_call.street) /\ ~smarty_client) =>
    /\ verify_call.out.verification_status = Str("not_configured")
    /\ verify_call.out.verified = False
    /\ VerifiedFieldsNull(verify_call.out)
    /\ verify_call.sent = 0
    /\ verify_call.response = NoResponse
    /\ calls.smarty = 0

\* a direct call with a street on a scanner that has no client
C10_Witness ==
  /\ pc = "verify_done"
  /\ verify_call.made
  /\ verify_call.street = Str("1 Infinite Loop")
  /\ ~smarty_client
  /\ verify_call.out.verification_status = Str("not_configured")

\* C11: with verification disabled scan_mail never calls the verifier and
\* the record has status not_attempted, verified null and null verified_*
\* fields, whatever was extracted.
C11_DisabledNotAttempted ==
  (pc = "done" /\ ~use_smarty) =>
    /\ result.verification_status = Str("not_attempted")
    /\ result.verified = Null
    /\ VerifiedFieldsNull(result)
    /\ ~verify_call.made
    /\ calls.smarty = 0

\* a record with a full address returned by a scanner without Smarty
C11_Witness ==
  /\ pc = "done"
  /\ ~use_smarty
  /\ result.street = Str("1 Infinite Loop")
  /\ result.full_address = Str("1 Infinite Loop, Cupertino, CA, 95014")
  /\ result.verification_status = Str("not_attempted")

\* a component as it is written into a formatted string
Written(x) == IF x = Null THEN "None" ELSE x.v

\* C12: for a returned candidate verified_zip is the base zip without a
\* plus-4 extension and base zip, "-", plus4 with one, and
\* verified_full_address is "<street>, <city>, <state> <zip>" of the
\* verified components (a null component is written None).
C12_VerifiedZipAndFull ==
  CandidateReturned =>
    LET first == verify_call.response.result[1]
        out == verify_call.out
    IN /\ out.verified_street = first.delivery_line_1
       /\ out.verified_city = first.city_name
       /\ out.verified_state = first.state_abbreviation
       /\ first.plus4_code \in {Null, Str("")} =>
            out.verified_zip = first.zipcode
       /\ first.plus4_code \notin {Null, Str("")} =>
            out.verified_zip =
              Str(first.zipcode.v \o "-" \o first.plus4_code.v)
       /\ out.verified_full_address =
            Str(Written(out.verified_street) \o ", "
                \o Written(out.verified_city) \o ", "
                \o Written(out.verified_state) \o " "
                \o Written(out.verified_zip))

\* the candidate 1 INFINITE LOOP, CUPERTINO, CA, 95014 with code Y
C12_Witness ==
  /\ CandidateReturned
  /\ verify_call.response.result[1].dpv_match_code = Str("Y")
  /\ verify_call.response.result[1].plus4_code = Null
  /\ verify_call.out.verified_full_address =
       Str("1 INFINITE LOOP, CUPERTINO, CA 95014")

\* C14: scan_mail with a path that does not exist fails with the
\* not-found error before any extractor or verifier call; no record.
C14_MissingPathNotFound ==
  image_source = "missing_path" =>
    /\ pc = "raised"
    /\ raised = "FileNotFoundError"
    /\ result = NoRecord
    /\ calls = NoCalls
    /\ ~verify_call.made

\* the scan of a missing path has ended with the not-found error
C14_Witness ==
  /\ image_source = "missing_path"
  /\ pc = "raised"
  /\ raised = "FileNotFoundError"
  /\ use_gemini

\* C16: every returned record carries exactly one method, and it is
\* tesseract only if vision is disabled or the vision extraction failed
\* with the local OCR engine available; otherwise it is gemini.
C16_MethodRecorded ==
  pc = "done" =>
    /\ result.method \in {Str("gemini"), Str("tesseract")}
    /\ result.method = Str("tesseract") =>
         (~use_gemini \/ (vision_failed /\ TESSERACT_AVAILABLE))
    /\ ~(~use_gemini \/ (vision_failed /\ TESSERACT_AVAILABLE)) =>
         result.method = Str("gemini")

\* a vision record returned although the local OCR engine is available
C16_Witness ==
  /\ pc = "done"
  /\ use_gemini
  /\ TESSERACT_AVAILABLE
  /\ result.method = Str("gemini")
  /\ calls.tesseract = 0

\* C17 as claimed: under any configuration the status of a returned
\* record is insufficient_data if and only if its street is empty.
C17_InsufficientIffEmptyStreet ==
  pc = "done" =>
    ((result.verification_status = Str("insufficient_data"))
       <=> EmptyField(result.street))

\* C17 amended: with verification enabled the status of a returned record
\* is insufficient_data if and only if its street is empty or absent; with
\* verification disabled it is not_attempted whatever the street.
C17_InsufficientIffEmptyStreetWhenEnabled ==
  /\ (pc = "done" /\ use_smarty) =>
       ((result.verification_status = Str("insufficient_data"))
          <=> EmptyField(result.street))
  /\ (pc = "done" /\ ~use_smarty) =>
       result.verification_status = Str("not_attempted")

\* a record without a street returned by a scanner with Smarty
C17_Witness ==
  /\ pc = "done"
  /\ use_smarty
  /\ result.street = Null
  /\ result.city = Str("Cupertino")
  /\ result.verification_status = Str("insufficient_data")

\* the categories the prompt names
PromptCategories ==
  {Str("Wedding Invitation"), Str("Graduation Announcement"),
   Str("Baby Announcement"), Str("Fan Letters"), Str("Other")}

\* C18: the category of every returned record is null or one of the
\* fixed categories, whatever the reply carries in its category key.
C18_CategoryInClosedSet ==
  pc = "done" => result.category \in PromptCategories \cup {Null}

\* the steps a scan may take from one position to the next
ScanEdges ==
  {<<"idle", "gemini">>, <<"idle", "tesseract">>, <<"idle", "raised">>,
   <<"idle", "verify_done">>, <<"gemini", "verify">>,
   <<"gemini", "raised">>, <<"gemini", "tesseract">>,
   <<"tesseract", "verify">>, <<"tesseract", "raised">>,
   <<"verify", "done">>, <<"done", "idle">>, <<"raised", "idle">>,
   <<"verify_done", "idle">>}

\* each service is called at most once per scan and the verifier only
\* runs on the fields an extractor produced
ScanCallsInOrder ==
  /\ calls.gemini <= 1
  /\ calls.tesseract <= 1
  /\ calls.smarty <= 1
  /\ pc \in {"verify", "done"} =>
       /\ calls.gemini + calls.tesseract >= 1
       /\ result.method \in {Str("gemini"), Str("tesseract")}
  /\ pc \in {"gemini", "tesseract", "verify", "raised"} =>
       (~verify_call.made /\ calls.smarty = 0)

\* the step moves the scan along one of the edges
ScanStepAllowed == \E e \in ScanEdges : pc = e[1] /\ pc' = e[2]

\* C19: a scan goes Loading, Extracting, Verifying, Done with no step
\* back; the verifier runs only after an extractor produced fields; the
\* only other edge allowed is the fallback from vision to local OCR; the
\* vision model, the OCR engine and the verification service are each
\* called at most once per scan.
C19_ScanOrder ==
  [](ScanCallsInOrder) /\ [][ScanStepAllowed]_vars

\* a finished scan with one vision call and one verification call
C19_Witness ==
  /\ pc = "done"
  /\ calls = [gemini |-> 1, tesseract |-> 0, smarty |-> 1]
  /\ verify_call.made

\* C20: once a reply has been received, no reply content makes the scan
\* fall back or fail: not non-JSON text, not JSON that is no object, not
\* an object with non-string members.
C20_ReplyContentNeverFails ==
  reply # NoReply => (pc # "raised" /\ ~vision_failed)

\* the two calls had the same arguments and the stub the same answer
SameRequestTwice ==
  /\ prev_call.made
  /\ verify_call.made
  /\ verify_call.street = prev_call.street
  /\ verify_call.city = prev_call.city
  /\ verify_call.state = prev_call.state
  /\ verify_call.zipcode = prev_call.zipcode
  /\ verify_call.response = prev_call.response

FileFails(file) ==
  \/ file.filename = <<>>
  \/ ~allowed_file(file.filename)
  \/ file.fate # "ok"

\* C15: in a batch upload a failure on one image is caught and appended to
\* the error list as a string, and every later file is still processed: the
\* loop visits all files, in order, whatever fails.
C15_BatchVisitsAllFiles ==
  /\ up_pc # "raised"
  /\ idx <= Len(files)
  /\ visited = [i \in 1..idx |-> i]
  /\ up_pc = "responded" => idx = Len(files)
  /\ Len(errors) = Cardinality({i \in 1..idx : FileFails(files[i])})
  /\ \A i \in DOMAIN errors : errors[i] \in STRING

\* a batch whose first file failed in the scan was answered after a later
\* file had been stored
C15_Witness ==
  /\ up_pc = "responded"
  /\ Len(files) = MaxFiles
  /\ files[1].fate = "scan_raises"
  /\ errors # <<>>
  /\ errors[1] = "a.jpg: No extraction method available"
  /\ scanned_count > 0
  /\ visited = [i \in 1..MaxFiles |-> i]

\* the keys the extractors write
ExtractionKeys == FieldKeys \cup {"full_address", "method"}

\* the step from the extracted record to the returned one
VerificationStep ==
  pc = "verify" =>
    /\ pc' = "done"
    /\ raised' = "none"
    /\ \A k \in ExtractionKeys :
         /\ k \in DOMAIN result => k \in DOMAIN result'
         /\ k \in DOMAIN result => result'[k] = result[k]
         /\ k \notin DOMAIN result => DictGet(result', k) = Null

\* C21: the verification step leaves the extraction results unchanged: for
\* every verification outcome, status error included, the returned record
\* has the sender_name, street, city, state, zip, full_address, category
\* and method the extractor produced, and a verification failure never
\* keeps the record from being returned.
C21_VerificationKeepsExtraction == [][VerificationStep]_vars

\* a record read by Gemini came back with its street after the lookup
\* had failed
C21_Witness ==
  /\ pc = "done"
  /\ verify_call.made
  /\ verify_call.response.kind \in {"SmartyException", "Exception"}
  /\ result.verification_status = Str("error")
  /\ result.method = Str("gemini")
  /\ Truthy(DictGet(result, "street"))
  /\ result.street = verify_call.street

\* C22: the in-memory image buffer created for one uploaded file is closed
\* on every exit path of that file's processing, the path where the scan
\* raises included: no buffer of one file is open when the loop moves on.
C22_BufferClosedBetweenFiles ==
  up_pc \in {"loop", "responded"} => image_bytes = 0

\* C23: after initialization no operation writes scanner state or the
\* process-wide service configuration: scans and verifications leave
\* use_gemini, use_smarty and the clients unchanged and no request handler
\* reconfigures the shared vision client.
C23_ConfigurationReadOnly == [][UNCHANGED config]_vars

\* the lines of the text read by Tesseract that hold a ZIP code
ZipLines(text) ==
  {n \in 1..Len(TextLines(text)) : ZipSearch(TextLines(text)[n]).found}

\* a record parsed from OCR text is at hand
ParsedFromText ==
  /\ pc \in {"verify", "done"}
  /\ ocr_text # NoText

\* C24: in the local OCR text parser only the first line with a ZIP
\* pattern sets zip; city and state are set only if that same line
\* matches '<text>, <2-letter code> <5 digits>' and stay null otherwise;
\* later lines change nothing; with no ZIP line all three are null;
\* category is always null; the parser raises for no text.
C24_FirstZipLineOnly ==
  ParsedFromText =>
    LET lines == TextLines(ocr_text)
        hits == ZipLines(ocr_text)
    IN /\ raised = "none"
       /\ result.method = Str("tesseract")
       /\ result.category = Null
       /\ hits = {} =>
            /\ result.zip = Null
            /\ result.city = Null
            /\ result.state = Null
       /\ hits # {} =>
            LET first == CHOOSE m \in hits : \A o \in hits : m <= o
                zip_match == ZipSearch(lines[first])
                cs_match == CityStateSearch(lines[first])
            IN /\ result.zip = Str(CharsToStr(zip_match.text))
               /\ Len(zip_match.text) \in {5, 10}
               /\ cs_match.found =>
                    /\ result.city =
                         Str(CharsToStr(StripChars(cs_match.city)))
                    /\ result.state = Str(CharsToStr(cs_match.state))
               /\ ~cs_match.found =>
                    /\ result.city = Null
                    /\ result.state = Null

\* the first ZIP line had no city and state, a later line had both
C24_Witness ==
  /\ ParsedFromText
  /\ ocr_text = TextTwoZipLines
  /\ Cardinality(ZipLines(ocr_text)) = 2
  /\ result.zip = Str("02134-1234")
  /\ result.city = Null
  /\ result.state = Null

\* the least number of pages of 30 that hold n labels
CeilDiv30(n) == (n + 29) \div 30

\* C25: the label-sheet writer places record idx (from 0) on page
\* idx div 30 at column (idx mod 30) mod 3 and row (idx mod 30) div 3, with
\* column in 0..2 and row in 0..9; a page is started exactly when idx > 0
\* and idx mod 30 = 0; so no two records share a slot, no page holds more
\* than 30 labels, and n records give ceil(n/30) pages.
C25_LabelGrid ==
  /\ Len(placed) = pdf_idx
  /\ \A k \in 1..Len(placed) :
       LET i == k - 1
       IN /\ placed[k].page = i \div 30
          /\ placed[k].col = (i % 30) % 3
          /\ placed[k].row = (i % 30) \div 3
          /\ placed[k].col \in 0..2
          /\ placed[k].row \in 0..9
          /\ k > 1 =>
               ((placed[k].page # placed[k - 1].page) <=> (i % 30 = 0))
          /\ k > 1 => placed[k].page \in {placed[k - 1].page,
                                          placed[k - 1].page + 1}
  /\ \A k, l \in 1..Len(placed) : placed[k] = placed[l] => k = l
  /\ \A p \in 0..page_num :
       Cardinality({k \in 1..Len(placed) : placed[k].page = p}) <= 30
  /\ pdf_pc = "saved" => pages = CeilDiv30(addresses)

\* a sheet of 61 labels was written on three pages
C25_Witness ==
  /\ pdf_pc = "saved"
  /\ addresses = 61
  /\ pages = 3
  /\ placed[31] = [page |-> 1, row |-> 0, col |-> 0]
  /\ placed[61] = [page |-> 2, row |-> 0, col |-> 0]
  /\ placed[30] = [page |-> 0, row |-> 9, col |-> 2]

\* a scan_mail call is under way
Scanning == pc \in {"gemini", "tesseract", "verify"}

\* how far a scan has come
ScanRank ==
  CASE pc = "idle" -> 0
    [] pc = "gemini" -> 1
    [] pc = "tesseract" -> 2
    [] pc = "verify" -> 3
    [] OTHER -> 4

\* a step of a scan under way takes the scan further
ScanAdvances == Scanning => ScanRank' > ScanRank

\* C26: every scan_mail call terminates once each external call it makes
\* has returned or failed: the scan ends with a record or with an error
\* raised to the caller, and no step loops or goes back to an earlier one.
C26_ScanTerminates ==
  /\ Scanning ~> (pc \in {"done", "raised"})
  /\ [][ScanAdvances]_vars

\* a scan went through the vision call and a failed lookup and ended with
\* its record
C26_Witness ==
  /\ pc = "done"
  /\ calls.gemini = 1
  /\ calls.smarty = 1
  /\ result.verification_status = Str("error")

\* C27: in upload_files each file of the batch is accounted for exactly
\* once: it has incremented scanned_count or added one entry to errors,
\* never both, so scanned_count plus the number of errors is total_files,
\* and scanned_count is the number of records stored in the batch.
C27_EachFileCountedOnce ==
  up_pc = "responded" =>
    /\ scanned_count + Len(errors) = Len(files)
    /\ scanned_count = Len(created_results)

\* C28: the subscription gate bounds usage: with can_user_scan true
\* exactly below scan_limit and each stored scan counted once, the monthly
\* count never exceeds scan_limit after any sequence of batch uploads, a
\* batch larger than the remaining quota included; and when the gate
\* answers false no file is scanned, stored or counted.
C28_GateBoundsUsage ==
  /\ scans_this_month <= ScanLimit
  /\ up_pc = "403" =>
       /\ visited = <<>>
       /\ scanned_count = 0
       /\ created_results = <<>>

\* the exception is of the connection type
ConnectionOutcome(outcome) ==
  /\ outcome.kind = "exception"
  /\ \E mark \in {"StreamReset", "stream_id", "RemoteProtocolError",
                   "ConnectionError"} :
       Contains(outcome.msg, Chars(mark))

\* what holds of a sign_in call at every moment
SignInBounded ==
  /\ auth_calls <= 3
  /\ auth_calls = Len(si_seen)
  /\ si_pc \in {"idle", "attempt", "returned"}
  /\ \A k \in 1..(Len(si_seen) - 1) : ConnectionOutcome(si_seen[k])
  /\ si_pc = "attempt" =>
       \A k \in 1..Len(si_seen) : ConnectionOutcome(si_seen[k])
  /\ si_pc = "returned" =>
       /\ auth_calls >= 1
       /\ si_result.ok <=> si_seen[Len(si_seen)].kind = "session"
       /\ ~si_result.ok => si_result.error # "none"
       /\ ConnectionOutcome(si_seen[Len(si_seen)]) => auth_calls = 3

\* C29: sign_in calls the authentication service at most 3 times; a
\* further attempt follows only a connection-type error on an attempt that
\* is not the last; a session, an invalid-credentials response or any other
\* error returns at once; so sign_in always ends with (True, data) or
\* (False, error) and never raises.
C29_SignInAtMostThreeCalls ==
  /\ []SignInBounded
  /\ (si_pc = "attempt") ~> (si_pc = "returned")

\* two connection errors, then a session on the third call
C29_Witness ==
  /\ si_pc = "returned"
  /\ auth_calls = 3
  /\ CharsToStr(si_seen[1].msg) = "StreamReset by peer"
  /\ CharsToStr(si_seen[2].msg) = "Invalid stream_id 7"
  /\ si_seen[3].kind = "session"
  /\ si_result.ok

\* the token of the request was rejected and no new session was obtained
RejectedNotRefreshed ==
  /\ rq_in.had_token
  /\ rq_in.get_user \notin {"none", "user"}
  /\ rq_in.refresh \notin {"session_user", "session_no_user"}

\* C30: a route wrapped by require_auth runs only when get_current_user
\* returned a user for the request; with no access token in the session,
\* or with a token that is rejected and cannot be refreshed, the route's
\* function never runs, the session is left without an access token, and
\* the caller gets the unauthenticated response.
C30_HandlerOnlyForUser ==
  rq_pc = "done" =>
    /\ handler_ran => rq_user = "user"
    /\ (~rq_in.had_token \/ RejectedNotRefreshed) =>
         /\ ~handler_ran
         /\ session.access_token = "None"
         /\ rq_response \in {"redirect", "401"}

\* an expired token whose refresh raised: the session is cleared and the
\* request answered with the redirect
C30_Witness ==
  /\ rq_pc = "done"
  /\ rq_in.had_token
  /\ rq_in.get_user = "Token has Expired"
  /\ rq_in.refresh = "exception"
  /\ ~handler_ran
  /\ session = NoSession
  /\ rq_response = "redirect"

====
